---- MODULE Spec2Model ----
(***************************************************************************)
(* Model of liquidityWatcher.py: the __main__ configuration check, the     *)
(* start-up of monitor_liquidity (init_web3, start-up message), and the    *)
(* polling loop with its threshold alert, its two sleeps and its two       *)
(* exception handlers.                                                     *)
(*                                                                         *)
(* A scaled liquidity value raw / 10^decimals is kept as the reduced       *)
(* fraction [n, d]; comparisons are exact.  KeyboardInterrupt is raised    *)
(* asynchronously by the interpreter, so the Interrupt action is enabled   *)
(* at every position of the program.                                       *)
(***************************************************************************)
EXTENDS Integers, Sequences, FiniteSets

VARIABLES
    VAULT_ADDRESS,        \* truthiness of the environment value (line 12)
    TELEGRAM_BOT_TOKEN,   \* truthiness of the environment value (line 18)
    TELEGRAM_CHAT_ID,     \* truthiness of the environment value (line 19)
    CHECK_INTERVAL,       \* int(os.getenv("CHECK_INTERVAL", "3600")) (line 14)
    pc,                   \* position of the program
    liquidity_data,       \* result of the last get_available_liquidity call
    previous_liquidity,   \* local of monitor_liquidity (line 169)
    alert_sent,           \* local of monitor_liquidity (line 170)
    history,              \* outcome of each completed fetch, oldest first
    attemptCycles,        \* cycles in which an alert send was started
    alertCycles,          \* cycles in which an alert send returned True
    startup_msgs,         \* start-up messages handed to the Notifier
    shutdown_msgs,        \* shutdown messages handed to the Notifier
    chain_called,         \* some Chain Reader call has been made
    last_delay,           \* seconds of the last completed time.sleep, 0 before any
    interrupted,          \* a KeyboardInterrupt has been raised
    report,               \* variation printed in the cycle in progress
    last_value            \* scaled value of the last reading evaluated

vars == <<VAULT_ADDRESS, TELEGRAM_BOT_TOKEN, TELEGRAM_CHAT_ID, CHECK_INTERVAL,
          pc, liquidity_data, previous_liquidity, alert_sent, history,
          attemptCycles, alertCycles, startup_msgs, shutdown_msgs,
          chain_called, last_delay, interrupted, report,
          last_value>>

config == <<VAULT_ADDRESS, TELEGRAM_BOT_TOKEN, TELEGRAM_CHAT_ID, CHECK_INTERVAL>>

\* Number of poll cycles whose outcome is recorded in history.
MaxCycles == 5

LIQUIDITY_THRESHOLD == 5000
DEFAULT_CHECK_INTERVAL == 3600
ERROR_DELAY == 300
HTTP_OK == 200

\* Bits of the significand of a Python float (IEEE 754 binary64).
MantissaBits == 53

\* Python's None, and a local not yet assigned; records, as the values
\* they are compared with are records.
None == [kind |-> "None"]
Unset == [kind |-> "Unset"]

\* Values the environment can give CHECK_INTERVAL: the default and a
\* negative one, for which time.sleep raises ValueError.
CheckIntervals == {DEFAULT_CHECK_INTERVAL, -1}

\* balanceOf results and decimals results the Chain Reader can return.  The
\* scaled values are 0, 2500, 5000 and 10000: they, their differences and
\* their ratios are binary fractions, which a float holds exactly.
Raws == {0, 25000, 50000, 100000}
DecimalsSet == {1}

\* The four contract calls of get_available_liquidity, in order.
ChainCalls == {"asset", "decimals", "symbol", "balanceOf"}

\* What requests.post can do: a status code, or an exception.
PostOutcomes == {HTTP_OK, 500, -1}

RECURSIVE Pow10(_)
Pow10(k) == IF k = 0 THEN 1 ELSE 10 * Pow10(k - 1)

RECURSIVE Gcd(_, _)
Gcd(a, b) == IF b = 0 THEN a ELSE Gcd(b, a % b)

RECURSIVE Pow2(_)
Pow2(k) == IF k = 0 THEN 1 ELSE 2 * Pow2(k - 1)

Abs(x) == IF x < 0 THEN 0 - x ELSE x

\* F(x), with x evaluated once.
Apply(F(_), x) == CHOOSE r \in {F(v) : v \in {x}} : TRUE

\* The fraction f (f.d > 0) in lowest terms.
Lowest(f) ==
    LET g == Gcd(f.d, Abs(f.n))
    IN  [n |-> f.n \div g, d |-> f.d \div g]

\* The number n / d (d > 0) as a fraction in lowest terms.  A float is held
\* as the fraction it is equal to.
Rat(n, d) == Apply(Lowest, [n |-> n, d |-> d])

RECURSIVE IsPow2(_)
IsPow2(d) == d = 1 \/ (d % 2 = 0 /\ IsPow2(d \div 2))

RECURSIVE OddPart(_)
OddPart(n) == IF n % 2 = 0 THEN OddPart(n \div 2) ELSE n

\* Two factors of 2^MantissaBits.
MantissaLow == Pow2(MantissaBits \div 2)
MantissaHigh == Pow2(MantissaBits - MantissaBits \div 2)

\* m < 2^MantissaBits, by two divisions.
FitsMantissa(m) == (m \div MantissaLow) \div MantissaHigh = 0

\* The fraction q (in lowest terms) is the value of a float.  The exponent
\* range is left out: a uint256 over 10 ** uint8 stays inside it.
IsDouble(q) ==
    \/ q.n = 0
    \/ IsPow2(q.d) /\ FitsMantissa(OddPart(Abs(q.n)))

\* The largest e with 2^e <= n / d, for n, d > 0.
RECURSIVE Log2Floor(_, _)
Log2Floor(n, d) ==
    IF n < d THEN Log2Floor(2 * n, d) - 1
    ELSE IF n >= 2 * d THEN Log2Floor(n, 2 * d) + 1
    ELSE 0

\* The float nearest to q > 0, ties to the even significand: q is brought
\* to [2^(MantissaBits-1), 2^MantissaBits), rounded to an integer and
\* brought back.
Rounded(q) ==
    LET k   == MantissaBits - 1 - Log2Floor(q.n, q.d)
        N   == IF k >= 0 THEN q.n * Pow2(k) ELSE q.n
        D   == IF k >= 0 THEN q.d ELSE q.d * Pow2(0 - k)
        fl  == N \div D
        rem == N - fl * D
        m   == IF 2 * rem > D \/ (2 * rem = D /\ fl % 2 = 1)
               THEN fl + 1 ELSE fl
    IN  IF k >= 0 THEN Rat(m, Pow2(k)) ELSE Rat(m * Pow2(0 - k), 1)

\* The fraction q rounded to the nearest float.
Nearest(q) ==
    IF IsDouble(q) THEN q
    ELSE IF q.n > 0 THEN Rounded(q)
    ELSE LET r == Rounded([n |-> 0 - q.n, d |-> q.d])
         IN  [n |-> 0 - r.n, d |-> r.d]

\* The result of a float operation whose exact result is q.
Double(q) == Apply(Nearest, q)

\* ratio * 100, a float multiplication.
Times100(ratio) == Double(Rat(ratio.n * 100, ratio.d))

\* Line 124: available_liquidity / (10 ** decimals), the quotient of two
\* ints rounded to a float.
Scale(raw, decimals) == Double(Rat(raw, Pow10(decimals)))

\* liquidity >= LIQUIDITY_THRESHOLD
AtThreshold(v) == v.n >= LIQUIDITY_THRESHOLD * v.d

\* The dictionary returned by get_available_liquidity on success.
Reading(raw, decimals) ==
    [raw |-> raw, formatted |-> Scale(raw, decimals),
     symbol |-> "SYM", decimals |-> decimals]

Readings == {Reading(r, k) : r \in Raws, k \in DecimalsSet}

\* The 'raw' entry of the dictionary read instead of 'formatted'.
Liquidity_Raw(data) == [n |-> data.raw, d |-> 1]

\* Line 179: liquidity = liquidity_data['formatted'].
Liquidity(data) == data.formatted

\* The variation in percent taken against the new value.
ChangePct_OfNew(change, liquidity, previous) ==
    IF liquidity.n # 0
    THEN Apply(Times100, Double(Rat(change.n * liquidity.d,
                                    change.d * liquidity.n)))
    ELSE [n |-> 0, d |-> 1]

\* Line 188: change = liquidity - previous_liquidity, a float subtraction.
Change(liquidity, previous) ==
    Double(Rat(liquidity.n * previous.d - previous.n * liquidity.d,
               liquidity.d * previous.d))

\* Line 189: change / previous_liquidity * 100, a float division then a
\* float multiplication; 0 when the previous value is 0 (values are never
\* negative).
ChangePct(change, liquidity, previous) ==
    IF previous.n # 0
    THEN Apply(Times100, Double(Rat(change.n * previous.d,
                                    change.d * previous.n)))
    ELSE [n |-> 0, d |-> 1]

\* Lines 191-196: the line printed for the variation.
Variation(change) ==
    IF change.n > 0 THEN "up"
    ELSE IF change.n < 0 THEN "down"
    ELSE "none"

\* Lines 187-196: what a cycle with a successful reading prints about the
\* variation; nothing (None) when there is no previous value.
Report(liquidity, previous) ==
    IF previous # None
    THEN LET Lines(change) ==
                 [change |-> change,
                  change_pct |-> ChangePct(change, liquidity, previous),
                  variation |-> Variation(change)]
         IN  Apply(Lines, Change(liquidity, previous))
    ELSE None

\* The assignment of line 221 made on the first reading only.
PreviousAfter_FirstOnly(liquidity, previous) ==
    IF previous = None THEN liquidity ELSE previous

\* Line 221: previous_liquidity = liquidity.
PreviousAfter(liquidity, previous) == liquidity

\* A failed fetch taken for a reading below the threshold.
FlagAfterFailure_Reset(alert) == FALSE

\* Lines 177 and 225: with liquidity_data None the block of lines 178-222
\* is skipped and alert_sent keeps its value.
FlagAfterFailure(alert) == alert

\* An exception leaving a call made inside the try of line 173.
Raised == [kind |-> "Raised"]

\* The except clause of line 133 removed: the error leaves the function.
get_available_liquidity_Raises(failed, raw, decimals) ==
    IF failed # {} THEN Raised ELSE Reading(raw, decimals)

\* get_available_liquidity: None when any of the four calls raises.
get_available_liquidity(failed, raw, decimals) ==
    IF failed # {} THEN None ELSE Reading(raw, decimals)

\* send_telegram_message: True only with both credentials and a 200 answer.
send_telegram_message(token, chat, post) ==
    IF ~token \/ ~chat THEN FALSE
    ELSE post = HTTP_OK

\* Not the code: an error of requests.post escaping send_telegram_message.
NotifierRaises_Uncaught(token, chat, post) == token /\ chat /\ post = -1

\* Lines 92-102: whether send_telegram_message raises into its caller.  The
\* post is inside try/except Exception and the two other paths return, so
\* it never does.
NotifierRaises(token, chat, post) == FALSE

\* Not the code: the interrupt caught only where a poll begins.
TryBody_TopOfLoopOnly == {"fetch"}

\* Lines 173-225: the positions inside the try whose handler of line 227
\* catches KeyboardInterrupt: the fetch in flight, the evaluation of the
\* reading, the alert send in flight, the assignment of line 221 and the
\* sleep.  The loop's back-edge (line 172) is outside the try.
TryBody == {"fetch", "evaluate", "alert_msg", "store", "sleep"}

Configured == TELEGRAM_BOT_TOKEN /\ TELEGRAM_CHAT_ID

\* The check of line 239 left out.
ConfigOK_NoVaultCheck(vault, token, chat) == token /\ chat

\* Lines 239-248: monitor_liquidity is called only with the vault address
\* and both Telegram values set.
ConfigOK(vault, token, chat) ==
    IF ~vault THEN FALSE
    ELSE IF ~token \/ ~chat THEN FALSE
    ELSE TRUE

\* The test of line 203 left out: an alert in every cycle at threshold.
NeedsAlert_NoFlagTest(liquidity, alert) == AtThreshold(liquidity)

\* Lines 199 and 203: an alert is sent when the reading is at or above
\* the threshold and no alert has been sent for this excursion.
NeedsAlert(liquidity, alert) == AtThreshold(liquidity) /\ ~alert

\* The assignment of line 213 left out.
FlagAfterSend_Never(ok, alert) == alert

\* The assignment of line 213 made whatever the send returned.
FlagAfterSend_Always(ok, alert) == TRUE

\* Lines 212-213: alert_sent after the alert send returned ok.
FlagAfterSend(ok, alert) == IF ok THEN TRUE ELSE alert

\* The reset of lines 217-218 left out.
FlagAfterBelow_NoReset(alert) == alert

\* Lines 215-218: alert_sent after a reading below the threshold.
FlagAfterBelow(alert) == IF alert THEN FALSE ELSE alert

\* history records the first MaxCycles cycles; one "more" entry marks
\* that later cycles took place and are not recorded.
Complete == Len(history) <= MaxCycles

Record(h, outcome) ==
    IF Len(h) < MaxCycles THEN Append(h, outcome)
    ELSE IF Len(h) = MaxCycles THEN Append(h, "more")
    ELSE h

TypeOK ==
    /\ VAULT_ADDRESS \in BOOLEAN
    /\ TELEGRAM_BOT_TOKEN \in BOOLEAN
    /\ TELEGRAM_CHAT_ID \in BOOLEAN
    /\ CHECK_INTERVAL \in CheckIntervals
    /\ pc \in {"main", "init_web3", "startup_msg", "loop", "fetch",
               "evaluate", "alert_msg", "store", "sleep", "backoff",
               "handler", "shutdown_msg",
               "exit_config", "exit_clean", "exit_exception", "exit_interrupt"}
    /\ liquidity_data \in Readings \cup {None, Unset}
    /\ previous_liquidity \in {r.formatted : r \in Readings} \cup {None}
    /\ alert_sent \in BOOLEAN
    /\ history \in Seq({"fail", "below", "above", "more"})
    /\ Len(history) <= MaxCycles + 1
    /\ attemptCycles \subseteq 0..(MaxCycles - 1)
    /\ alertCycles \subseteq attemptCycles
    /\ startup_msgs \in 0..1
    /\ shutdown_msgs \in 0..1
    /\ chain_called \in BOOLEAN
    /\ last_delay \in {0, ERROR_DELAY} \cup CheckIntervals
    /\ interrupted \in BOOLEAN
    /\ report = None \/ report.variation \in {"up", "down", "none"}
    /\ last_value \in {r.formatted : r \in Readings} \cup {None}

Init ==
    /\ VAULT_ADDRESS \in BOOLEAN
    /\ TELEGRAM_BOT_TOKEN \in BOOLEAN
    /\ TELEGRAM_CHAT_ID \in BOOLEAN
    /\ CHECK_INTERVAL \in CheckIntervals
    /\ pc = "main"
    /\ liquidity_data = Unset
    /\ previous_liquidity = None
    /\ alert_sent = FALSE
    /\ history = <<>>
    /\ attemptCycles = {}
    /\ alertCycles = {}
    /\ startup_msgs = 0
    /\ shutdown_msgs = 0
    /\ chain_called = FALSE
    /\ last_delay = 0
    /\ interrupted = FALSE
    /\ report = None
    /\ last_value = None

\* Lines 237-248: the configuration check of __main__.
Main ==
    /\ pc = "main"
    /\ pc' = IF ConfigOK(VAULT_ADDRESS, TELEGRAM_BOT_TOKEN, TELEGRAM_CHAT_ID)
             THEN "init_web3"
             ELSE "exit_config"
    /\ UNCHANGED <<config, liquidity_data, previous_liquidity, alert_sent,
                   history, attemptCycles, alertCycles, startup_msgs,
                   shutdown_msgs, chain_called, last_delay, interrupted,
                   report, last_value>>

\* Lines 71-76 and 150-164: init_web3 raises when not connected, outside
\* any try; otherwise the start-up message is sent when configured.
InitWeb3 ==
    /\ pc = "init_web3"
    /\ \E connected \in BOOLEAN :
         /\ pc' = IF ~connected THEN "exit_exception"
                  ELSE IF Configured THEN "startup_msg"
                  ELSE "loop"
         /\ startup_msgs' = IF connected /\ Configured THEN 1 ELSE startup_msgs
    /\ chain_called' = TRUE
    /\ UNCHANGED <<config, liquidity_data, previous_liquidity, alert_sent,
                   history, attemptCycles, alertCycles, shutdown_msgs,
                   last_delay, interrupted,
                   report, last_value>>

\* Lines 157-162: the start-up send returns (its result is ignored).
StartupSend ==
    /\ pc = "startup_msg"
    /\ \E post \in PostOutcomes :
         /\ send_telegram_message(TELEGRAM_BOT_TOKEN, TELEGRAM_CHAT_ID, post)
               \in BOOLEAN
         /\ pc' = "loop"
    /\ UNCHANGED <<config, liquidity_data, previous_liquidity, alert_sent,
                   history, attemptCycles, alertCycles, startup_msgs,
                   shutdown_msgs, chain_called, last_delay, interrupted,
                   report, last_value>>

\* Lines 166-173: the code between two try blocks: the prints and the
\* locals of lines 166-170 on the way in, the back-edge of `while True`
\* after a sleep; then the try is entered.
LoopHead ==
    /\ pc = "loop"
    /\ pc' = "fetch"
    /\ UNCHANGED <<config, liquidity_data, previous_liquidity, alert_sent,
                   history, attemptCycles, alertCycles, startup_msgs,
                   shutdown_msgs, chain_called, last_delay, interrupted,
                   report, last_value>>

\* Line 175: the fetch of one poll cycle.
GetLiquidity ==
    /\ pc = "fetch"
    /\ \E failed \in {{}} \cup {{c} : c \in ChainCalls},
          raw \in Raws, decimals \in DecimalsSet :
         LET result == get_available_liquidity(failed, raw, decimals)
         IN  IF result = Raised
             THEN /\ pc' = "backoff"
                  /\ UNCHANGED liquidity_data
             ELSE /\ pc' = "evaluate"
                  /\ liquidity_data' = result
    /\ chain_called' = TRUE
    /\ UNCHANGED <<config, previous_liquidity, alert_sent, history,
                   attemptCycles, alertCycles, startup_msgs, shutdown_msgs,
                   last_delay, interrupted,
                   report, last_value>>

\* Lines 177-219 up to the call of send_telegram_message at line 212, or
\* to the end of the threshold test when no alert is sent.
Evaluate ==
    /\ pc = "evaluate"
    /\ IF liquidity_data = None
       THEN /\ pc' = "sleep"
            /\ history' = Record(history, "fail")
            /\ alert_sent' = FlagAfterFailure(alert_sent)
            /\ UNCHANGED <<previous_liquidity, attemptCycles>>
       ELSE LET liquidity == Liquidity(liquidity_data) IN
            IF AtThreshold(liquidity)
            THEN /\ history' = Record(history, "above")
                 /\ IF NeedsAlert(liquidity, alert_sent)
                    THEN /\ pc' = "alert_msg"
                         /\ attemptCycles' =
                              IF Len(history) < MaxCycles
                              THEN attemptCycles \cup {Len(history)}
                              ELSE attemptCycles
                         /\ UNCHANGED <<alert_sent, previous_liquidity>>
                    ELSE /\ pc' = "store"
                         /\ UNCHANGED <<alert_sent, attemptCycles,
                                        previous_liquidity>>
            ELSE /\ history' = Record(history, "below")
                 /\ alert_sent' = FlagAfterBelow(alert_sent)
                 /\ pc' = "store"
                 /\ UNCHANGED <<attemptCycles, previous_liquidity>>
    /\ report' = IF liquidity_data = None THEN None
                 ELSE Report(Liquidity(liquidity_data), previous_liquidity)
    /\ last_value' = IF liquidity_data = None THEN last_value
                     ELSE liquidity_data.formatted
    /\ UNCHANGED <<config, liquidity_data, alertCycles, startup_msgs,
                   shutdown_msgs, chain_called, last_delay, interrupted>>

\* Lines 212-214: the alert send returns; the flag is set on True only.  An
\* exception raised by the send would leave the block for the handler of
\* line 232.  post is the outcome of requests.post.
AlertSendWith(post) ==
    /\ pc = "alert_msg"
    /\   LET ok == send_telegram_message(TELEGRAM_BOT_TOKEN,
                                         TELEGRAM_CHAT_ID, post)
             cycle == Len(history) - 1
         IN  IF NotifierRaises(TELEGRAM_BOT_TOKEN, TELEGRAM_CHAT_ID, post)
             THEN /\ pc' = "backoff"
                  /\ UNCHANGED <<alert_sent, alertCycles>>
             ELSE /\ alert_sent' = FlagAfterSend(ok, alert_sent)
                  /\ alertCycles' = IF ok /\ Complete
                                    THEN alertCycles \cup {cycle}
                                    ELSE alertCycles
                  /\ pc' = "store"
    /\ UNCHANGED <<config, liquidity_data, previous_liquidity, history,
                   attemptCycles, startup_msgs, shutdown_msgs, chain_called,
                   last_delay, interrupted, report, last_value>>

AlertSend == \E post \in PostOutcomes : AlertSendWith(post)

\* Lines 221-222: previous_liquidity = liquidity, after either branch of
\* the threshold test.
StorePrevious ==
    /\ pc = "store"
    /\ previous_liquidity' =
          PreviousAfter(Liquidity(liquidity_data), previous_liquidity)
    /\ pc' = "sleep"
    /\ UNCHANGED <<config, liquidity_data, alert_sent, history,
                   attemptCycles, alertCycles, startup_msgs, shutdown_msgs,
                   chain_called, last_delay, interrupted, report,
                   last_value>>

\* Line 225: time.sleep(CHECK_INTERVAL); a negative argument raises
\* ValueError, which the handler of line 232 catches.  The cycle is over.
Sleep ==
    /\ pc = "sleep"
    /\ report' = None
    /\ IF CHECK_INTERVAL < 0
       THEN /\ pc' = "backoff"
            /\ UNCHANGED last_delay
       ELSE /\ pc' = "loop"
            /\ last_delay' = CHECK_INTERVAL
    /\ UNCHANGED <<config, liquidity_data, previous_liquidity, alert_sent,
                   history, attemptCycles, alertCycles, startup_msgs,
                   shutdown_msgs, chain_called, interrupted, last_value>>

\* Lines 232-235: the handler of Exception sleeps 300 s and loops.
Backoff ==
    /\ pc = "backoff"
    /\ pc' = "loop"
    /\ last_delay' = ERROR_DELAY
    /\ UNCHANGED <<config, liquidity_data, previous_liquidity, alert_sent,
                   history, attemptCycles, alertCycles, startup_msgs,
                   shutdown_msgs, chain_called, interrupted,
                   report, last_value>>

\* KeyboardInterrupt, raised wherever the program is.  Inside the try of
\* lines 173-225 it is caught at line 227 (neither get_available_liquidity
\* nor send_telegram_message catches it: they catch Exception) and the
\* cycle in progress is abandoned; anywhere else it is uncaught: in
\* __main__, in init_web3, in the start-up send, between two try blocks,
\* in the sleep of line 235, in the handler of line 227 itself.  One that
\* arrives in init_web3 does so before or after the connection was tried.
Interrupt ==
    /\ pc \in {"main", "init_web3", "startup_msg", "loop", "fetch",
               "evaluate", "alert_msg", "store", "sleep", "backoff",
               "handler", "shutdown_msg"}
    /\ interrupted' = TRUE
    /\ report' = None
    /\ pc' = IF pc \in TryBody THEN "handler" ELSE "exit_interrupt"
    /\ \E called \in BOOLEAN :
         chain_called' = IF pc = "init_web3" THEN called ELSE chain_called
    /\ UNCHANGED <<config, liquidity_data, previous_liquidity, alert_sent,
                   history, attemptCycles, alertCycles, startup_msgs,
                   shutdown_msgs, last_delay, last_value>>

\* Lines 227-230: the handler of KeyboardInterrupt up to the call of the
\* shutdown send, made when the bot is configured.
Handler ==
    /\ pc = "handler"
    /\ pc' = IF Configured THEN "shutdown_msg" ELSE "exit_clean"
    /\ shutdown_msgs' = IF Configured THEN 1 ELSE shutdown_msgs
    /\ UNCHANGED <<config, liquidity_data, previous_liquidity, alert_sent,
                   history, attemptCycles, alertCycles, startup_msgs,
                   chain_called, last_delay, interrupted, report,
                   last_value>>

\* Lines 230-231: the shutdown send returns, then break.
ShutdownSend ==
    /\ pc = "shutdown_msg"
    /\ \E post \in PostOutcomes :
         /\ send_telegram_message(TELEGRAM_BOT_TOKEN, TELEGRAM_CHAT_ID, post)
               \in BOOLEAN
         /\ pc' = "exit_clean"
    /\ UNCHANGED <<config, liquidity_data, previous_liquidity, alert_sent,
                   history, attemptCycles, alertCycles, startup_msgs,
                   shutdown_msgs, chain_called, last_delay, interrupted,
                   report, last_value>>

Next ==
    \/ Main
    \/ InitWeb3
    \/ StartupSend
    \/ LoopHead
    \/ GetLiquidity
    \/ Evaluate
    \/ AlertSend
    \/ StorePrevious
    \/ Sleep
    \/ Backoff
    \/ Interrupt
    \/ Handler
    \/ ShutdownSend

Spec == Init /\ [][Next]_vars

\* The steps of the program other than the arrival of an interrupt: each
\* call made returns and each sleep ends.
Step ==
    \/ Main
    \/ InitWeb3
    \/ StartupSend
    \/ LoopHead
    \/ GetLiquidity
    \/ Evaluate
    \/ AlertSend
    \/ StorePrevious
    \/ Sleep
    \/ Backoff
    \/ Handler
    \/ ShutdownSend

FairSpec == Spec /\ WF_vars(Step)

(***************************************************************************)
(* Vocabulary of the properties.  Cycles are numbered from 0; cycle i is   *)
(* history[i + 1].                                                         *)
(***************************************************************************)

\* Positions between two poll cycles.
BetweenCycles == pc \in {"loop", "fetch", "sleep", "backoff"}

\* Cycles whose fetch succeeded.
Successes(h) == {i \in 0..(Len(h) - 1) : h[i + 1] \in {"below", "above"}}

Max(S) == CHOOSE x \in S : \A y \in S : y <= x

\* Outcome of the most recent successful reading, "none" when there is none.
LastSuccess(h) ==
    IF Successes(h) = {} THEN "none" ELSE h[Max(Successes(h)) + 1]

\* First cycles of the excursions: a reading at or above the threshold that
\* is the first reading or follows a reading below it.
ExcursionStarts(h) ==
    {i \in 0..(Len(h) - 1) :
        /\ h[i + 1] = "above"
        /\ i = 0 \/ h[i] = "below"}

\* Cycles of the excursion in progress: those after the last reading below
\* the threshold.
CurrentExcursion(h) ==
    {i \in 0..(Len(h) - 1) : \A j \in i..(Len(h) - 1) : h[j + 1] # "below"}

NoFailedFetch == \A i \in 1..Len(history) : history[i] # "fail"
EverySendSucceeded == attemptCycles = alertCycles

\* C1: between two poll cycles, alert_sent is true only if some reading has
\* succeeded and the most recent successful reading was at or above the
\* threshold; after a cycle whose reading was below it the flag is false.
C1_AlertFlagInvariant ==
    (BetweenCycles /\ Complete) =>
        /\ alert_sent => LastSuccess(history) = "above"
        /\ alert_sent => /\ previous_liquidity # None
                         /\ AtThreshold(previous_liquidity)
        /\ (history # <<>> /\ history[Len(history)] = "below") => ~alert_sent

C1_Witness ==
    /\ pc = "sleep"
    /\ Len(history) = 3
    /\ history[2] = "above" /\ history[3] = "below"
    /\ 1 \in alertCycles
    /\ ~alert_sent

\* C2: when every fetch and every send has succeeded, the cycles in which an
\* alert was sent are exactly the first cycles of the excursions; for
\* [below, above, above, below, above] these are cycles 1 and 4.
C2_OneAlertPerExcursion ==
    (Complete /\ pc # "alert_msg" /\ NoFailedFetch /\ EverySendSucceeded) =>
        /\ alertCycles = ExcursionStarts(history)
        /\ history = <<"below", "above", "above", "below", "above">>
              => alertCycles = {1, 4}

C2_Witness ==
    /\ pc = "sleep"
    /\ history = <<"below", "above", "above", "below", "above">>
    /\ attemptCycles = {1, 4}
    /\ alertCycles = {1, 4}

\* C3: a failed alert send leaves alert_sent false, the flag becomes true
\* only in a step in which the send returned success, and after a failed
\* send the next cycle at or above the threshold attempts the alert again.
C3_FlagOnlyOnSuccess ==
    /\ [][(pc = "alert_msg" /\ pc' = "store" /\ Complete) =>
             IF alertCycles' # alertCycles
             THEN alert_sent'
             ELSE ~alert_sent /\ ~alert_sent']_vars
    /\ [][(~alert_sent /\ alert_sent') => pc = "alert_msg"]_vars
    /\ [](Complete =>
            \A i \in attemptCycles \ alertCycles :
               \A j \in (i + 1)..(Len(history) - 1) :
                  (/\ history[j + 1] = "above"
                   /\ \A k \in (i + 1)..(j - 1) : history[k + 1] # "above")
                  => j \in attemptCycles)

C3_Witness ==
    /\ Complete
    /\ pc = "sleep"
    /\ 0 \in attemptCycles \ alertCycles
    /\ 1 \in alertCycles
    /\ alert_sent

\* C4: after a poll whose fetch failed, the delay before the next poll is
\* the 300 s recovery delay.
C4_FetchFailureBacksOff ==
    (pc = "fetch" /\ liquidity_data = None) => last_delay = ERROR_DELAY

\* C5: a failed fetch is returned as None and never raised into the loop,
\* the cycle then goes to the sleep, and a later poll is reached unless an
\* interrupt arrives.
C5_FetchFailureIsSoft ==
    /\ [][pc = "fetch" => pc' \notin {"backoff", "exit_exception"}]_vars
    /\ [][(pc = "evaluate" /\ liquidity_data = None /\ ~interrupted')
             => pc' = "sleep"]_vars
    /\ (pc = "evaluate" /\ liquidity_data = None)
          ~> (pc = "fetch" \/ interrupted)

C5_Witness ==
    /\ pc = "fetch"
    /\ ~interrupted
    /\ liquidity_data = None
    /\ Len(history) = 2
    /\ history[1] = "fail" /\ history[2] = "fail"

\* C6: once an interrupt has arrived, whatever the position it arrived at,
\* the program is stopping through the shutdown path and exactly one
\* shutdown notification has been attempted.
C6_InterruptAlwaysNotifies ==
    interrupted =>
        /\ pc \in {"handler", "shutdown_msg", "exit_clean"}
        /\ pc # "handler" => shutdown_msgs = 1

\* C7: with a valid configuration no Chain Reader error ends the process,
\* the connection step of init_web3 included.
C7_NoChainErrorIsFatal ==
    ConfigOK(VAULT_ADDRESS, TELEGRAM_BOT_TOKEN, TELEGRAM_CHAT_ID)
        => pc # "exit_exception"

\* C8: with the vault address or a bot credential absent the program ends
\* at the configuration check (or at an interrupt before it):
\* monitor_liquidity is never entered, and no Chain Reader call and no
\* Notifier call is made.
C8_MissingConfigNoCalls ==
    (~VAULT_ADDRESS \/ ~TELEGRAM_BOT_TOKEN \/ ~TELEGRAM_CHAT_ID) =>
        /\ pc \in {"main", "exit_config", "exit_interrupt"}
        /\ ~chain_called
        /\ startup_msgs = 0 /\ shutdown_msgs = 0 /\ attemptCycles = {}
        /\ history = <<>>

C8_Witness ==
    /\ pc = "exit_config"
    /\ ~VAULT_ADDRESS
    /\ TELEGRAM_BOT_TOKEN /\ TELEGRAM_CHAT_ID

\* C9: with the vault address set and the bot token or the chat id unset,
\* the program does not stop at the configuration check.
C9_CredentialsOptional ==
    (VAULT_ADDRESS /\ ~(TELEGRAM_BOT_TOKEN /\ TELEGRAM_CHAT_ID))
        => pc # "exit_config"

\* C10 as stated: at the end of a cycle whose reading was at or above the
\* threshold the alert flag is true, whatever the outcome of the send.
C10_FlagSetWhateverOutcome ==
    (Complete /\ pc = "sleep" /\ history # <<>>
        /\ history[Len(history)] = "above") => alert_sent

\* C10 amended: a cycle with a reading at or above the threshold and the
\* flag false triggers exactly one notification; at the end of a cycle at
\* or above the threshold the flag is true exactly when a send of the
\* excursion in progress succeeded, and at most one send of an excursion
\* succeeds.
C10_FlagSetOnSuccess ==
    /\ [][(/\ pc = "evaluate" /\ liquidity_data # None
           /\ AtThreshold(liquidity_data.formatted) /\ ~alert_sent
           /\ ~interrupted' /\ Len(history) < MaxCycles)
             => /\ pc' = "alert_msg"
                /\ attemptCycles' = attemptCycles \cup {Len(history)}
                /\ Len(history) \notin attemptCycles]_vars
    /\ [][(pc = "evaluate" /\ alert_sent) => pc' # "alert_msg"]_vars
    /\ []((Complete /\ pc = "sleep" /\ history # <<>>
             /\ history[Len(history)] = "above") =>
            /\ alert_sent <=> (alertCycles \cap CurrentExcursion(history)) # {}
            /\ Cardinality(alertCycles \cap CurrentExcursion(history)) <= 1)

C10_Witness ==
    /\ pc = "sleep"
    /\ history = <<"above", "above", "above">>
    /\ attemptCycles = {0, 1}
    /\ alertCycles = {1}
    /\ alert_sent

\* The value v is below the threshold (v < LIQUIDITY_THRESHOLD).
Below(v) == v.n < LIQUIDITY_THRESHOLD * v.d

\* C11: a cycle whose reading is below the threshold starts no alert send:
\* it goes on to store the previous value, with the alert flag false and
\* the alert attempts unchanged; an alert send is in flight only for a reading at or above the
\* threshold, and every recorded attempt is in such a cycle.
C11_NoAlertBelowThreshold ==
    /\ [][(/\ pc = "evaluate" /\ liquidity_data # None
           /\ Below(liquidity_data.formatted) /\ ~interrupted')
             => /\ pc' = "store"
                /\ ~alert_sent'
                /\ attemptCycles' = attemptCycles]_vars
    /\ [](pc = "alert_msg" => ~Below(liquidity_data.formatted))
    /\ [](Complete => \A i \in attemptCycles : history[i + 1] = "above")

C11_Witness ==
    /\ pc = "sleep"
    /\ history = <<"above", "below">>
    /\ attemptCycles = {0}
    /\ alertCycles = {0}
    /\ ~alert_sent
    /\ Below(previous_liquidity)


\* The report r is the one of a reading v2 that follows a reading v1: the
\* delta v2 - v1, the percentage 0 when v1 = 0 and (v2 - v1) / v1 * 100
\* otherwise, each operation in float arithmetic, and the sign of the
\* delta.
DeltaOK(r, v1, v2) ==
    LET delta == Double(Rat(v2.n * v1.d - v1.n * v2.d, v1.d * v2.d))
    IN  /\ r.change = delta
        /\ IF v1.n = 0
           THEN r.change_pct.n = 0
           ELSE r.change_pct
                   = Times100(Double(Rat(delta.n * v1.d, delta.d * v1.n)))
        /\ r.variation = IF delta.n > 0 THEN "up"
                         ELSE IF delta.n < 0 THEN "down" ELSE "none"

\* C12: a cycle with a successful reading v2 reports nothing about the
\* variation when no reading succeeded before, and otherwise reports, for
\* the value v1 of the last successful reading (failed fetches in between
\* or not), the delta v2 - v1, the percentage (0 when v1 = 0) and its sign.
C12_DeltaAndPercentage ==
    [][(pc = "evaluate" /\ liquidity_data # None /\ ~interrupted') =>
          IF last_value = None
          THEN report' = None
          ELSE /\ report' # None
               /\ DeltaOK(report', last_value, liquidity_data.formatted)]_vars

C12_Witness ==
    /\ pc = "sleep"
    /\ history = <<"above", "fail", "below">>
    /\ report # None
    /\ report.variation = "down"
    /\ report.change_pct.n # 0
    /\ previous_liquidity.n # 0

\* C13: between two poll cycles the stored previous value is the scaled
\* value of the last successful reading: of the reading just fetched when
\* the fetch of the cycle succeeded, whatever the threshold branch and the
\* outcome of the alert send, the first reading included.
C13_PreviousIsLastReading ==
    BetweenCycles =>
        /\ liquidity_data \notin {None, Unset}
              => previous_liquidity = liquidity_data.formatted
        /\ previous_liquidity = last_value

C13_Witness ==
    /\ pc = "sleep"
    /\ history = <<"above">>
    /\ attemptCycles = {0}
    /\ alertCycles = {}
    /\ previous_liquidity # None
    /\ previous_liquidity = liquidity_data.formatted

\* The alert send of the cycle in progress has failed.
AlertFailedThisCycle ==
    /\ Complete
    /\ history # <<>>
    /\ (Len(history) - 1) \in attemptCycles \ alertCycles

\* C14: a failed alert send does not change the continuation of polling:
\* whatever the outcome of the send the cycle goes on to store the
\* previous value and then to the sleep of the check interval, neither to
\* the error delay nor to a stop; that sleep then ends with the check
\* interval as the delay, and the next poll is reached unless an interrupt
\* arrives.
C14_NotifierFailureIsSoft ==
    /\ [][(pc = "alert_msg" /\ ~interrupted') => pc' = "store"]_vars
    /\ [][(pc = "store" /\ ~interrupted') =>
             /\ pc' = "sleep"
             /\ previous_liquidity' = liquidity_data.formatted]_vars
    /\ [][(pc = "sleep" /\ AlertFailedThisCycle /\ CHECK_INTERVAL >= 0
           /\ ~interrupted') =>
             /\ pc' = "loop"
             /\ last_delay' = CHECK_INTERVAL]_vars
    /\ (pc = "sleep" /\ AlertFailedThisCycle) ~> (pc = "fetch" \/ interrupted)

C14_Witness ==
    /\ pc = "fetch"
    /\ ~interrupted
    /\ last_delay = CHECK_INTERVAL
    /\ history = <<"above">>
    /\ attemptCycles = {0}
    /\ alertCycles = {}
    /\ ~alert_sent

\* C15 as stated: once the reading of a cycle is being evaluated or its
\* alert send is in flight, the loop does not stop before the cycle has
\* been carried to its sleep.
C15_InterruptOnlyAtLoopTop ==
    [][(pc = "evaluate" \/ pc = "alert_msg")
          => pc' \notin {"handler", "shutdown_msg", "exit_clean"}]_vars

\* C15, amended: an interrupt can arrive at every position of a poll
\* cycle, the fetch and the alert send in flight included, and takes effect
\* there: the rest of the cycle is skipped, no further alert is attempted,
\* the previous value and the alert flag are left as they were, and the
\* handler is entered, which goes straight to the shutdown notification
\* unless a further interrupt arrives first; no position of the loop is
\* reached again.
C15_InterruptPreempts ==
    /\ [](pc \in {"fetch", "evaluate", "alert_msg", "store", "sleep"}
            => ENABLED Interrupt)
    /\ [][(~interrupted /\ interrupted'
           /\ pc \in {"fetch", "evaluate", "alert_msg", "store", "sleep"})
             => /\ pc' = "handler"
                /\ UNCHANGED <<previous_liquidity, alert_sent,
                               attemptCycles, alertCycles, history>>]_vars
    /\ [][(pc = "handler" /\ pc' # "exit_interrupt") =>
             /\ pc' = "shutdown_msg"
             /\ shutdown_msgs' = 1]_vars
    /\ [][interrupted => pc' \notin {"loop", "fetch", "evaluate",
                                     "alert_msg", "store", "sleep",
                                     "backoff"}]_vars

\* The interrupt arrived while the alert send of the first cycle was in
\* flight: the attempt is recorded, the previous value was never stored.
C15_Witness ==
    /\ pc = "shutdown_msg"
    /\ interrupted
    /\ history = <<"above">>
    /\ attemptCycles = {0}
    /\ alertCycles = {}
    /\ previous_liquidity = None
    /\ ~alert_sent

\* C16: a cycle whose fetch failed goes to the sleep with the previous
\* value and the alert flag as they were and without any Notifier call;
\* hence for [above, fail, above] with the first alert delivered there is
\* one alert attempt in all, and the first reading after failed fetches
\* reports its delta against the last successful reading.
C16_FailedFetchFrame ==
    /\ [][(pc = "evaluate" /\ liquidity_data = None /\ ~interrupted') =>
             /\ pc' = "sleep"
             /\ UNCHANGED <<previous_liquidity, alert_sent, attemptCycles,
                            alertCycles, startup_msgs, shutdown_msgs>>]_vars
    /\ [][(pc = "sleep" /\ liquidity_data = None /\ ~interrupted') =>
             UNCHANGED <<previous_liquidity, alert_sent, attemptCycles,
                         alertCycles, startup_msgs, shutdown_msgs>>]_vars
    /\ [](history = <<"above", "fail", "above">> /\ 0 \in alertCycles
            => attemptCycles = {0} /\ alertCycles = {0}
               /\ pc # "alert_msg")
    /\ [][(/\ pc = "evaluate" /\ liquidity_data # None /\ ~interrupted'
           /\ history # <<>> /\ history[Len(history)] = "fail"
           /\ previous_liquidity # None) =>
             /\ report' # None
             /\ previous_liquidity = last_value
             /\ DeltaOK(report', previous_liquidity,
                        liquidity_data.formatted)]_vars

C16_Witness ==
    /\ pc = "sleep"
    /\ history = <<"above", "fail", "above">>
    /\ attemptCycles = {0}
    /\ alertCycles = {0}
    /\ alert_sent
    /\ report # None
    /\ report.variation = "up"

\* The reading being evaluated is a successful one at or above the
\* threshold.
AboveRegime ==
    pc = "evaluate" =>
        /\ liquidity_data # None
        /\ AtThreshold(liquidity_data.formatted)

\* C17: if polling goes on for ever (no interrupt), from some cycle on every
\* fetch succeeds with a reading at or above the threshold, and an alert
\* send that is attempted again and again is eventually answered with
\* success, then the alert flag eventually becomes true and remains true;
\* and the flag goes from true to false only in the evaluation of a
\* successful reading below the threshold.
C17_AlertEventuallyDelivered ==
    /\ ([]<>(pc = "evaluate") /\ <>[]AboveRegime
           /\ SF_vars(AlertSendWith(HTTP_OK)))
          => <>[]alert_sent
    /\ [][(alert_sent /\ ~alert_sent') =>
             /\ pc = "evaluate"
             /\ liquidity_data # None
             /\ Below(liquidity_data.formatted)]_vars

\* Two failed sends, then a delivered one, in one excursion.
C17_Witness ==
    /\ pc = "sleep"
    /\ alert_sent
    /\ history = <<"above", "above", "above">>
    /\ attemptCycles = {0, 1, 2}
    /\ alertCycles = {2}

\* Number of Notifier calls made so far: the start-up message, the alert
\* attempts and the shutdown message.
NotifierCalls == startup_msgs + Cardinality(attemptCycles) + shutdown_msgs

\* C18: when a run of monitor_liquidity has ended, the Notifier has been
\* called for one start-up message, for alerts in cycles whose reading was
\* at or above the threshold, and for at most one shutdown message: the
\* total is 1 + the number of alert attempts + 0 or 1.
C18_NotifierCallCount ==
    (pc \in {"exit_clean", "exit_interrupt", "exit_exception"} /\ Complete)
        => /\ startup_msgs = 1
           /\ shutdown_msgs \in {0, 1}
           /\ \A i \in attemptCycles : history[i + 1] = "above"
           /\ NotifierCalls - Cardinality(attemptCycles) \in {1, 2}

====
